---- MODULE Spec2Model ----
(***************************************************************************)
(* Model of MusicDownload/music_download/pipeline_manager.py: the per-file *)
(* state (content hash + phase flags), the change-detection rule           *)
(* needs_processing, process_file as run by the workers of a               *)
(* ThreadPoolExecutor, and process_batch.                                  *)
(*                                                                         *)
(* A file's content is an abstract version number; get_file_hash maps a    *)
(* version to its digest and 0 stands for a file that does not exist.      *)
(* FileState.last_processed, a wall-clock stamp nothing compares, is one    *)
(* abstract value.                                                         *)
(*                                                                         *)
(* One action is one step of a thread between two points where another     *)
(* thread can observe or change shared data: the dict self.state, the      *)
(* state file, the progress counter.  exists() and needs_processing read   *)
(* self.state once, so they are one step; _save_state is four (its         *)
(* iteration begins, its iteration ends, open(.., 'w') empties the file,   *)
(* the text is written), because a dict that changes size while it is      *)
(* iterated raises RuntimeError and because the file is observable between *)
(* its truncation and the write.  The progress lock is taken in one step   *)
(* and released in the next.  Files change only between process_batch      *)
(* calls.  PipelineManager.__init__ is one step: nothing runs beside it.   *)
(***************************************************************************)
EXTENDS Integers, Sequences, FiniteSets, TLC

VARIABLES
    content,      \* file -> content version on disk (0: no such file)
    state,        \* PipelineManager.state: dict file_key -> FileState
    disk,         \* pipeline_state.json: what kind of content it has, and the entries
    progress,     \* PipelineManager.progress
    progress_lock,\* PipelineManager._progress_lock: the task holding it, or Unlocked
    mpc,          \* where the thread that called process_batch is
    file_paths,   \* process_batch argument
    phase,        \* process_batch argument
    max_workers,  \* process_batch argument
    pc,           \* per submitted task: where its process_file call is
    futures,      \* process_batch's list of futures: the task each one stands for
    result,       \* per task: the value its future holds once done
    iter_used,    \* per task: dict size seen when _save_state's iteration began
    snapshot,     \* per task: state_dict built by _save_state
    returned,     \* the list process_batch returned
    batch_no,     \* number of process_batch calls so far
    completed,    \* history: <<file, phase, hash>> -> number of Processor runs that returned
    lastOK,       \* history: <<file, phase>> -> batch whose process_file returned True; dropped when the content changes
    np_call,      \* history: per task, what its needs_processing call did
    proc,         \* history: per task, how its Processor call ended: "none", "ok", "raised", "error"
    done_order,   \* history: tasks in the order they finished
    how,          \* history: per task, the way its process_file call ended
    init_raised,  \* the exception PipelineManager.__init__ let through, "" if none
    \* OptimizedPipeline
    config,       \* the config file: its kind and the required keys it has
    opc,          \* where the OptimizedPipeline object (constructor, then run) is
    skip_phases,  \* run's argument
    downloaded_files, \* run's local list of files to process
    dirs,         \* whether setup_directories has created the directories
    stats,        \* OptimizedPipeline.stats
    stats_file,   \* pipeline_stats.json
    vpc,          \* per file: where its validation worker of the pool is
    fpos,         \* extract_features: index of the next file of its loop
    ext_features, \* history: files handed to the feature extractor
    processed_files, \* extract_features' local list: the files whose features it holds
    exc,          \* the exception on its way out of the constructor or of run, "" if none
    run_raised,   \* the exception run let through to its caller, "" if none
    phase_log,    \* history: the phases in the order they started
    \* the feature cache in temp_dir
    cache,        \* stem -> content of temp/<stem>_features.json
    last_put,     \* history: path -> the features last cached for that path
    last_call,    \* the last cache call: its operation, its path, what it passed or returned
    \* AudioQualityValidator.check_audio_quality on one file
    duration,     \* librosa.get_duration of the file
    chunk_duration, \* AudioQualityValidator.chunk_duration
    qpc,          \* where the check_audio_quality call is
    chunk_start,  \* the loop variable
    accumulated_metrics, \* the local list of per-chunk metric dicts
    issues,       \* the local list of issues
    metrics,      \* the local dict of file-level metrics
    qresult,      \* what check_audio_quality returned
    windows,      \* history: the windows handed to librosa.load, in order
    \* the validation of process_downloads
    audio_files,  \* the list of files to validate
    batch_size,   \* validation_thresholds.processing.batch_size
    vpos,         \* the loop variable i: where the next batch starts
    results,      \* history: the per-file results the pools returned, in order
    batch_results, \* what the last validate_dataset call returned
    total_results  \* the merged results

orch_vars == <<config, opc, skip_phases, downloaded_files, dirs, stats, stats_file,
               vpc, fpos, ext_features, processed_files, exc, run_raised, phase_log>>
cache_vars == <<cache, last_put, last_call>>
quality_vars == <<duration, chunk_duration, qpc, chunk_start, accumulated_metrics,
                  issues, metrics, qresult, windows>>
validation_vars == <<audio_files, batch_size, vpos, results, batch_results, total_results>>
\* What the PipelineManager actions leave alone.
other_vars == <<orch_vars, cache_vars, quality_vars, validation_vars>>

vars == <<content, state, disk, progress, progress_lock, mpc, file_paths, phase,
          max_workers, futures, pc, result, iter_used, snapshot, returned, batch_no,
          completed, lastOK, np_call, proc, done_order, how, init_raised, other_vars>>

(***************************************************************************)
(* Bounds                                                                  *)
(***************************************************************************)
MaxHash == 2
MaxBatchLen == 2
MaxBatches == 2
MaxWorkers == 2

Files == {"a.mp3", "b.mp3"}
BatchFiles == <<"a.mp3", "b.mp3", "c.mp3">>
AllFiles == Files \cup {BatchFiles[k] : k \in 1..Len(BatchFiles)}
Hashes == 1..MaxHash
NoFile == 0

\* max_workers: int = 4
DefaultMaxWorkers == 4

\* The phase names the FileState flags stand for.
PhaseNames == {"features", "standardized", "validated", "metadata"}
\* Any string may be passed as phase; these two stand for the rest.
OtherPhaseNames == {"validation", "download"}

SeqsUpTo(S, n) == UNION {[1..k -> S] : k \in 0..n}
Range(s) == {s[k] : k \in 1..Len(s)}
EmptyDict == [k \in {} |-> 0]
\* Counters kept as dicts: a missing key counts 0.
Count(d, x) == IF x \in DOMAIN d THEN d[x] ELSE 0
Counted(d, x) == (x :> Count(d, x) + 1) @@ d

(***************************************************************************)
(* FileState and the pure helpers                                          *)
(***************************************************************************)
FileState(h, fe, st, va, me) ==
    [hash |-> h,
     last_processed |-> "time",
     features_extracted |-> fe,
     standardized |-> st,
     validated |-> va,
     validation_extracted |-> FALSE,
     metadata_extracted |-> me]

\* The FileState field process_file sets for a phase name.
PhaseFlag(st, ph) ==
    CASE ph = "features" -> st.features_extracted
      [] ph = "standardized" -> st.standardized
      [] ph = "validated" -> st.validated
      [] ph = "metadata" -> st.metadata_extracted

\* hashlib.md5 over the file's bytes: one digest per content version.
get_file_hash(file_path) == content[file_path]

\* getattr(state, f"{phase}_extracted"): AttributeError when FileState has no such field.
getattr_extracted(st, ph) ==
    LET name == ph \o "_extracted"
    IN  IF name \in DOMAIN st
        THEN [raised |-> FALSE, value |-> st[name]]
        ELSE [raised |-> TRUE, value |-> FALSE]

\* Mutant: the stored hash is never compared with the current one.
needs_processing_ignores_hash(file_path, ph) ==
    IF file_path \notin DOMAIN state
    THEN [result |-> TRUE, raised |-> FALSE, trace |-> <<"lookup">>]
    ELSE LET a == getattr_extracted(state[file_path], ph)
         IN  [result |-> (~a.raised) /\ ~a.value,
              raised |-> a.raised,
              trace |-> <<"lookup", "hash", "getattr">>]

\* Mutant: a file without an entry is taken as already processed.
needs_processing_unknown_is_done(file_path, ph) ==
    IF file_path \notin DOMAIN state
    THEN [result |-> FALSE, raised |-> FALSE, trace |-> <<"lookup">>]
    ELSE LET st == state[file_path]
             current_hash == get_file_hash(file_path)
         IN  IF current_hash # st.hash
             THEN [result |-> TRUE, raised |-> FALSE, trace |-> <<"lookup", "hash">>]
             ELSE LET a == getattr_extracted(st, ph)
                  IN  [result |-> (~a.raised) /\ ~a.value,
                       raised |-> a.raised,
                       trace |-> <<"lookup", "hash", "getattr">>]

\* Mutant: the hash is computed first, before the store is looked at.
needs_processing_hash_first(file_path, ph) ==
    LET current_hash == get_file_hash(file_path)
    IN  IF file_path \notin DOMAIN state
        THEN [result |-> TRUE, raised |-> FALSE, trace |-> <<"hash", "lookup">>]
        ELSE LET st == state[file_path]
             IN  IF current_hash # st.hash
                 THEN [result |-> TRUE, raised |-> FALSE, trace |-> <<"hash", "lookup">>]
                 ELSE LET a == getattr_extracted(st, ph)
                      IN  [result |-> (~a.raised) /\ ~a.value,
                           raised |-> a.raised,
                           trace |-> <<"hash", "lookup", "getattr">>]

\* needs_processing: result, whether it raised, and the operations it performed in order.
needs_processing(file_path, ph) ==
    IF file_path \notin DOMAIN state
    THEN [result |-> TRUE, raised |-> FALSE, trace |-> <<"lookup">>]
    ELSE LET st == state[file_path]
             current_hash == get_file_hash(file_path)
         IN  IF current_hash = NoFile
             THEN [result |-> FALSE, raised |-> TRUE, trace |-> <<"lookup", "hash">>]
             ELSE IF current_hash # st.hash
             THEN [result |-> TRUE, raised |-> FALSE, trace |-> <<"lookup", "hash">>]
             ELSE LET a == getattr_extracted(st, ph)
                  IN  [result |-> (~a.raised) /\ ~a.value,
                       raised |-> a.raised,
                       trace |-> <<"lookup", "hash", "getattr">>]

\* Mutant: the flag of the phase just run is not set, only old flags are kept.
NewFileState_keeps_old_flags(file_key, ph) ==
    FileState(get_file_hash(file_key),
              file_key \in DOMAIN state /\ state[file_key].features_extracted,
              file_key \in DOMAIN state /\ state[file_key].standardized,
              file_key \in DOMAIN state /\ state[file_key].validated,
              file_key \in DOMAIN state /\ state[file_key].metadata_extracted)

\* Mutant: only the flag of the phase just run is set, the old ones are dropped.
NewFileState_drops_old_flags(file_key, ph) ==
    FileState(get_file_hash(file_key),
              ph = "features", ph = "standardized", ph = "validated", ph = "metadata")

\* The FileState process_file builds after the Processor returned.
NewFileState(file_key, ph) ==
    FileState(get_file_hash(file_key),
              ph = "features" \/ (file_key \in DOMAIN state /\ state[file_key].features_extracted),
              ph = "standardized" \/ (file_key \in DOMAIN state /\ state[file_key].standardized),
              ph = "validated" \/ (file_key \in DOMAIN state /\ state[file_key].validated),
              ph = "metadata" \/ (file_key \in DOMAIN state /\ state[file_key].metadata_extracted))

\* state_dict of _save_state: the fields written to pipeline_state.json.
state_dict ==
    [path \in DOMAIN state |->
        [hash |-> state[path].hash,
         last_processed |-> state[path].last_processed,
         features_extracted |-> state[path].features_extracted,
         standardized |-> state[path].standardized,
         validated |-> state[path].validated,
         metadata_extracted |-> state[path].metadata_extracted]]

\* Mutant: the results are collected as the futures complete.
FutureResults_as_completed == [k \in 1..Len(done_order) |-> result[done_order[k]]]

\* [f.result() for f in futures]: the futures are kept in submission order.
FutureResults == [k \in 1..Len(futures) |-> result[futures[k]]]

(***************************************************************************)
(* pipeline_state.json                                                     *)
(***************************************************************************)
\* The file's content: "missing" (no file), "json" (a complete JSON object,
\* its entries in data) or "partial" (text that does not parse: an emptied
\* file, or a shorter text written over a longer one, whose tail remains).
\* The number of entries stands for the length of the text.
NoStateFile == [kind |-> "missing", data |-> EmptyDict]

\* open(self.state_file, 'w'): the file exists and is empty.
Truncated == [kind |-> "partial", data |-> EmptyDict]

\* json.dump into a file opened before the present content was written: the
\* text goes over the content from offset 0 and what is longer stays behind.
Written(d) ==
    IF Cardinality(DOMAIN disk.data) > Cardinality(DOMAIN d)
    THEN [kind |-> "partial", data |-> disk.data]
    ELSE [kind |-> "json", data |-> d]

required_fields == {"hash", "last_processed", "features_extracted",
                    "standardized", "validated", "metadata_extracted"}
FileStateFields == required_fields \cup {"validation_extracted"}
\* The dataclass fields without a default.
PositionalFields == {"hash", "last_processed"}

\* FileState(**state): TypeError for a missing positional or an unknown keyword;
\* the flags left out take their default.
FileState_kwargs(e) ==
    [raised |-> ~(PositionalFields \subseteq DOMAIN e /\ DOMAIN e \subseteq FileStateFields),
     obj |-> [x \in FileStateFields |-> IF x \in DOMAIN e THEN e[x] ELSE FALSE]]

\* _load_state: the exception it lets through ("" if none) and the dict it returns.
load_state ==
    CASE disk.kind = "missing" -> [raised |-> "", state |-> EmptyDict]
      [] disk.kind = "partial" -> [raised |-> "JSONDecodeError", state |-> EmptyDict]
      [] disk.kind = "json" ->
            IF \E path \in DOMAIN disk.data : FileState_kwargs(disk.data[path]).raised
            THEN [raised |-> "TypeError", state |-> EmptyDict]
            ELSE [raised |-> "",
                  state |-> [path \in DOMAIN disk.data |-> FileState_kwargs(disk.data[path]).obj]]

\* _validate_state: hasattr on the FileState objects _load_state built.
validate_state(st) ==
    \A path \in DOMAIN st : \A field \in required_fields : field \in DOMAIN st[path]

(***************************************************************************)
(* PipelineManager.__init__                                                *)
(***************************************************************************)
Unlocked == 0

PipelineManager_init ==
    /\ mpc = "new"
    /\ LET loaded == load_state
       IN  IF loaded.raised # ""
           THEN /\ mpc' = "aborted"
                /\ init_raised' = loaded.raised
                /\ UNCHANGED state
           ELSE /\ mpc' = "idle"
                /\ init_raised' = ""
                /\ state' = IF validate_state(loaded.state) THEN loaded.state ELSE EmptyDict
    /\ UNCHANGED <<content, disk, progress, progress_lock, file_paths, phase,
                   max_workers, futures, pc, result, iter_used, snapshot, returned, batch_no,
                   completed, lastOK, np_call, proc, done_order, how, other_vars>>

(***************************************************************************)
(* process_batch, the calling thread                                       *)
(***************************************************************************)
Tasks == 1..Len(file_paths)
\* Mutant: only the tasks inside the Processor call count as using a pool thread.
Running_in_processor_only(i) == pc[i] = "process"

Running(i) == pc[i] \notin {"queued", "done"}
AllDone == \A i \in Tasks : pc[i] = "done"

\* Mutant: processed_files is carried over from the batch before.
process_batch_begin_without_reset(fs, ph, mw) ==
    /\ mpc = "idle"
    /\ batch_no < MaxBatches
    /\ mpc' = "monitor"
    /\ batch_no' = batch_no + 1
    /\ file_paths' = fs
    /\ phase' = ph
    /\ max_workers' = mw
    /\ progress' = [total_files |-> Len(fs), processed_files |-> progress.processed_files,
                    current_phase |-> ph]
    /\ futures' = [i \in 1..Len(fs) |-> i]
    /\ pc' = [i \in 1..Len(fs) |-> "queued"]
    /\ result' = [i \in 1..Len(fs) |-> FALSE]
    /\ iter_used' = [i \in 1..Len(fs) |-> 0]
    /\ snapshot' = [i \in 1..Len(fs) |-> EmptyDict]
    /\ np_call' = [i \in 1..Len(fs) |-> [had_entry |-> FALSE, trace |-> <<>>]]
    /\ proc' = [i \in 1..Len(fs) |-> "none"]
    /\ how' = [i \in 1..Len(fs) |-> ""]
    /\ done_order' = <<>>
    /\ returned' = <<>>
    /\ UNCHANGED <<content, state, disk, progress_lock, completed, lastOK, init_raised, other_vars>>

\* The three assignments to self.progress are made without _progress_lock.
process_batch_begin(fs, ph, mw) ==
    /\ mpc = "idle"
    /\ batch_no < MaxBatches
    /\ mpc' = "monitor"
    /\ batch_no' = batch_no + 1
    /\ file_paths' = fs
    /\ phase' = ph
    /\ max_workers' = mw
    /\ progress' = [total_files |-> Len(fs), processed_files |-> 0, current_phase |-> ph]
    /\ futures' = [i \in 1..Len(fs) |-> i]
    /\ pc' = [i \in 1..Len(fs) |-> "queued"]
    /\ result' = [i \in 1..Len(fs) |-> FALSE]
    /\ iter_used' = [i \in 1..Len(fs) |-> 0]
    /\ snapshot' = [i \in 1..Len(fs) |-> EmptyDict]
    /\ np_call' = [i \in 1..Len(fs) |-> [had_entry |-> FALSE, trace |-> <<>>]]
    /\ proc' = [i \in 1..Len(fs) |-> "none"]
    /\ how' = [i \in 1..Len(fs) |-> ""]
    /\ done_order' = <<>>
    /\ returned' = <<>>
    /\ UNCHANGED <<content, state, disk, progress_lock, completed, lastOK, init_raised, other_vars>>

\* Mutant: process_batch returns the results without its final save.
process_batch_wait_then_return ==
    /\ mpc = "monitor"
    /\ AllDone
    /\ returned' = FutureResults
    /\ mpc' = "returned"
    /\ UNCHANGED <<content, state, disk, progress, progress_lock, file_paths, phase,
                   max_workers, futures, pc, result, iter_used, snapshot, batch_no,
                   completed, lastOK, np_call, proc, done_order, how, init_raised, other_vars>>

\* The polling loop ends once every future is done; the executor then shuts down.
process_batch_wait ==
    /\ mpc = "monitor"
    /\ AllDone
    /\ mpc' = "final_save"
    /\ UNCHANGED <<content, state, disk, progress, progress_lock, file_paths, phase,
                   max_workers, futures, pc, result, iter_used, snapshot, returned, batch_no,
                   completed, lastOK, np_call, proc, done_order, how, init_raised, other_vars>>

\* self._save_state() after the executor, no worker left: state_dict is built
\* and open(.., 'w') empties the file.
process_batch_open ==
    /\ mpc = "final_save"
    /\ disk' = Truncated
    /\ mpc' = "final_write"
    /\ UNCHANGED <<content, state, progress, progress_lock, file_paths, phase,
                   max_workers, futures, pc, result, iter_used, snapshot, returned, batch_no,
                   completed, lastOK, np_call, proc, done_order, how, init_raised, other_vars>>

\* json.dump of the final save, then the list of results is built.
process_batch_save ==
    /\ mpc = "final_write"
    /\ disk' = Written(state_dict)
    /\ returned' = FutureResults
    /\ mpc' = "returned"
    /\ UNCHANGED <<content, state, progress, progress_lock, file_paths, phase,
                   max_workers, futures, pc, result, iter_used, snapshot, batch_no,
                   completed, lastOK, np_call, proc, done_order, how, init_raised, other_vars>>

\* The caller takes the list; the call's locals and futures are gone.
process_batch_return ==
    /\ mpc = "returned"
    /\ mpc' = "idle"
    /\ file_paths' = <<>>
    /\ phase' = ""
    /\ max_workers' = DefaultMaxWorkers
    /\ futures' = <<>>
    /\ pc' = <<>>
    /\ result' = <<>>
    /\ iter_used' = <<>>
    /\ snapshot' = <<>>
    /\ returned' = <<>>
    /\ np_call' = <<>>
    /\ proc' = <<>>
    /\ how' = <<>>
    /\ done_order' = <<>>
    /\ UNCHANGED <<content, state, disk, progress, progress_lock, batch_no,
                   completed, lastOK, init_raised, other_vars>>

(***************************************************************************)
(* process_file, one call per submitted task                               *)
(***************************************************************************)
Finish(i, r) ==
    /\ pc' = [pc EXCEPT ![i] = "done"]
    /\ result' = [result EXCEPT ![i] = r]
    /\ done_order' = Append(done_order, i)

\* Mutant: file_path.exists() is not tested.
process_file_check_without_exists(i) ==
    /\ mpc = "monitor"
    /\ pc[i] = "queued"
    /\ \A j \in 1..(i - 1) : pc[j] # "queued"
    /\ Cardinality({j \in Tasks : Running(j)}) < max_workers
    /\ LET f == file_paths[i]
           np == needs_processing(f, phase)
       IN  /\ np_call' = [np_call EXCEPT ![i] =
                            [had_entry |-> f \in DOMAIN state, trace |-> np.trace]]
           /\ IF np.raised
              THEN /\ Finish(i, FALSE)
                   /\ how' = [how EXCEPT ![i] = "failed"]
              ELSE IF ~np.result
              THEN /\ Finish(i, FALSE)
                   /\ how' = [how EXCEPT ![i] = "skipped"]
              ELSE /\ pc' = [pc EXCEPT ![i] = "process"]
                   /\ UNCHANGED <<result, done_order, how>>
    /\ UNCHANGED <<content, state, disk, progress, progress_lock, mpc, file_paths, phase,
                   max_workers, futures, iter_used, snapshot, returned, batch_no,
                   completed, lastOK, proc, init_raised, other_vars>>

\* A pool thread takes the next queued task; file_path.exists() and needs_processing.
process_file_check(i) ==
    /\ mpc = "monitor"
    /\ pc[i] = "queued"
    /\ \A j \in 1..(i - 1) : pc[j] # "queued"
    /\ Cardinality({j \in Tasks : Running(j)}) < max_workers
    /\ LET f == file_paths[i]
       IN  IF content[f] = NoFile
           THEN /\ Finish(i, FALSE)
                /\ how' = [how EXCEPT ![i] = "skipped"]
                /\ UNCHANGED np_call
           ELSE LET np == needs_processing(f, phase)
                IN  /\ np_call' = [np_call EXCEPT ![i] =
                                     [had_entry |-> f \in DOMAIN state, trace |-> np.trace]]
                    /\ IF np.raised
                       THEN /\ Finish(i, FALSE)
                            /\ how' = [how EXCEPT ![i] = "failed"]
                       ELSE IF ~np.result
                       THEN /\ Finish(i, FALSE)
                            /\ how' = [how EXCEPT ![i] = "skipped"]
                       ELSE /\ pc' = [pc EXCEPT ![i] = "process"]
                            /\ UNCHANGED <<result, done_order, how>>
    /\ UNCHANGED <<content, state, disk, progress, progress_lock, mpc, file_paths, phase,
                   max_workers, futures, iter_used, snapshot, returned, batch_no,
                   completed, lastOK, proc, init_raised, other_vars>>

\* Mutant: the entry is written before the Processor is called, so it is
\* there when the Processor raises.
process_file_call_commits_first(i) ==
    /\ mpc = "monitor"
    /\ pc[i] = "process"
    /\ state' = [k \in DOMAIN state \cup {file_paths[i]} |->
                    IF k = file_paths[i] THEN NewFileState(k, phase) ELSE state[k]]
    /\ \/ /\ pc' = [pc EXCEPT ![i] = "update"]
          /\ completed' = Counted(completed, <<file_paths[i], phase, content[file_paths[i]]>>)
          /\ proc' = [proc EXCEPT ![i] = "ok"]
          /\ UNCHANGED <<result, done_order, how>>
       \/ /\ proc' = [proc EXCEPT ![i] = "raised"]
          /\ Finish(i, FALSE)
          /\ how' = [how EXCEPT ![i] = "failed"]
          /\ UNCHANGED completed
    /\ UNCHANGED <<content, disk, progress, progress_lock, mpc, file_paths, phase,
                   max_workers, futures, iter_used, snapshot, returned, batch_no,
                   lastOK, np_call, init_raised, other_vars>>

\* processor.process_file(file_path[, output_path]) returns or raises.  The
\* MetadataProcessor, which run passes, has a third way out: it catches its
\* own exception and returns a dict that carries "error".
process_file_call(i) ==
    /\ mpc = "monitor"
    /\ pc[i] = "process"
    /\ \/ /\ pc' = [pc EXCEPT ![i] = "update"]
          /\ completed' = Counted(completed, <<file_paths[i], phase, content[file_paths[i]]>>)
          /\ proc' = [proc EXCEPT ![i] = "ok"]
          /\ UNCHANGED <<result, done_order, how>>
       \/ /\ opc = "metadata"
          /\ pc' = [pc EXCEPT ![i] = "update"]
          /\ proc' = [proc EXCEPT ![i] = "error"]
          /\ UNCHANGED <<completed, result, done_order, how>>
       \/ /\ proc' = [proc EXCEPT ![i] = "raised"]
          /\ Finish(i, FALSE)
          /\ how' = [how EXCEPT ![i] = "failed"]
          /\ UNCHANGED completed
    /\ UNCHANGED <<content, state, disk, progress, progress_lock, mpc, file_paths, phase,
                   max_workers, futures, iter_used, snapshot, returned, batch_no,
                   lastOK, np_call, init_raised, other_vars>>

\* Mutant: the commit replaces the whole dict by the one new entry.
process_file_update_replacing_store(i) ==
    /\ mpc = "monitor"
    /\ pc[i] = "update"
    /\ state' = (file_paths[i] :> NewFileState(file_paths[i], phase))
    /\ pc' = [pc EXCEPT ![i] = "save_begin"]
    /\ UNCHANGED <<content, disk, progress, progress_lock, mpc, file_paths, phase,
                   max_workers, futures, result, iter_used, snapshot, returned, batch_no,
                   completed, lastOK, np_call, proc, done_order, how, init_raised, other_vars>>

\* self.state[file_key] = FileState(...)
process_file_update(i) ==
    /\ mpc = "monitor"
    /\ pc[i] = "update"
    /\ LET file_key == file_paths[i]
           new == NewFileState(file_key, phase)
       IN  state' = [k \in DOMAIN state \cup {file_key} |->
                        IF k = file_key THEN new ELSE state[k]]
    /\ pc' = [pc EXCEPT ![i] = "save_begin"]
    /\ UNCHANGED <<content, disk, progress, progress_lock, mpc, file_paths, phase,
                   max_workers, futures, result, iter_used, snapshot, returned, batch_no,
                   completed, lastOK, np_call, proc, done_order, how, init_raised, other_vars>>

\* _save_state: the comprehension starts iterating self.state.items().
save_state_begin(i) ==
    /\ mpc = "monitor"
    /\ pc[i] = "save_begin"
    /\ iter_used' = [iter_used EXCEPT ![i] = Cardinality(DOMAIN state)]
    /\ pc' = [pc EXCEPT ![i] = "save_iter"]
    /\ UNCHANGED <<content, state, disk, progress, progress_lock, mpc, file_paths, phase,
                   max_workers, futures, result, snapshot, returned, batch_no,
                   completed, lastOK, np_call, proc, done_order, how, init_raised, other_vars>>

\* The iteration ends: RuntimeError if the dict changed size meanwhile,
\* caught by process_file's except, which returns False.
save_state_iter(i) ==
    /\ mpc = "monitor"
    /\ pc[i] = "save_iter"
    /\ IF Cardinality(DOMAIN state) # iter_used[i]
       THEN /\ Finish(i, FALSE)
            /\ how' = [how EXCEPT ![i] = "failed"]
            /\ UNCHANGED snapshot
       ELSE /\ snapshot' = [snapshot EXCEPT ![i] = state_dict]
            /\ pc' = [pc EXCEPT ![i] = "save_open"]
            /\ UNCHANGED <<result, done_order, how>>
    /\ UNCHANGED <<content, state, disk, progress, progress_lock, mpc, file_paths, phase,
                   max_workers, futures, iter_used, returned, batch_no,
                   completed, lastOK, np_call, proc, init_raised, other_vars>>

\* with open(self.state_file, 'w') as f
save_state_open(i) ==
    /\ mpc = "monitor"
    /\ pc[i] = "save_open"
    /\ disk' = Truncated
    /\ pc' = [pc EXCEPT ![i] = "save_write"]
    /\ UNCHANGED <<content, state, progress, progress_lock, mpc, file_paths, phase,
                   max_workers, futures, result, iter_used, snapshot, returned, batch_no,
                   completed, lastOK, np_call, proc, done_order, how, init_raised, other_vars>>

\* json.dump(state_dict, f), and the file is closed.
save_state_write(i) ==
    /\ mpc = "monitor"
    /\ pc[i] = "save_write"
    /\ disk' = Written(snapshot[i])
    /\ pc' = [pc EXCEPT ![i] = "lock"]
    /\ UNCHANGED <<content, state, progress, progress_lock, mpc, file_paths, phase,
                   max_workers, futures, result, iter_used, snapshot, returned, batch_no,
                   completed, lastOK, np_call, proc, done_order, how, init_raised, other_vars>>

\* with self._progress_lock: the thread waits until the lock is free.
process_file_lock(i) ==
    /\ mpc = "monitor"
    /\ pc[i] = "lock"
    /\ progress_lock = Unlocked
    /\ progress_lock' = i
    /\ pc' = [pc EXCEPT ![i] = "progress"]
    /\ UNCHANGED <<content, state, disk, progress, mpc, file_paths, phase,
                   max_workers, futures, result, iter_used, snapshot, returned, batch_no,
                   completed, lastOK, np_call, proc, done_order, how, init_raised, other_vars>>

\* Mutant: the progress lock is not released.
process_file_progress_keeps_lock(i) ==
    /\ mpc = "monitor"
    /\ pc[i] = "progress"
    /\ progress' = [progress EXCEPT !.processed_files = @ + 1]
    /\ Finish(i, TRUE)
    /\ how' = [how EXCEPT ![i] = "processed"]
    /\ lastOK' = (<<file_paths[i], phase>> :> batch_no) @@ lastOK
    /\ UNCHANGED <<content, state, disk, progress_lock, mpc, file_paths, phase,
                   max_workers, futures, iter_used, snapshot, returned, batch_no,
                   completed, np_call, proc, init_raised, other_vars>>

\* processed_files += 1, the lock is released; return True
process_file_progress(i) ==
    /\ mpc = "monitor"
    /\ pc[i] = "progress"
    /\ progress' = [progress EXCEPT !.processed_files = @ + 1]
    /\ progress_lock' = Unlocked
    /\ Finish(i, TRUE)
    /\ how' = [how EXCEPT ![i] = "processed"]
    /\ lastOK' = (<<file_paths[i], phase>> :> batch_no) @@ lastOK
    /\ UNCHANGED <<content, state, disk, mpc, file_paths, phase,
                   max_workers, futures, iter_used, snapshot, returned, batch_no,
                   completed, np_call, proc, init_raised, other_vars>>

(***************************************************************************)
(* The environment: a file is downloaded or rewritten between batches      *)
(***************************************************************************)
ChangeContent(f, h) ==
    /\ mpc = "idle"
    /\ batch_no < MaxBatches
    /\ content[f] # h
    /\ content' = [content EXCEPT ![f] = h]
    /\ lastOK' = [x \in {y \in DOMAIN lastOK : y[1] # f} |-> lastOK[x]]
    /\ UNCHANGED <<state, disk, progress, progress_lock, mpc, file_paths, phase,
                   max_workers, futures, pc, result, iter_used, snapshot, returned, batch_no,
                   completed, np_call, proc, done_order, how, init_raised, other_vars>>

(***************************************************************************)
(* OptimizedPipeline: the constructor and run                              *)
(***************************************************************************)
\* The keys run and process_downloads read without a default.
\* "download_settings.playlists" is the key playlists inside download_settings;
\* the other keys inside a present section are taken as present.
ConfigKeys == {"download_settings", "download_settings.playlists",
               "validation_thresholds", "processing"}
Lacking(k) ==
    IF k = "download_settings"
    THEN {"download_settings", "download_settings.playlists"}
    ELSE {k}
\* No config file, one that is not JSON, a complete one, one lacking one key.
Configs ==
    {[kind |-> "missing", keys |-> {}], [kind |-> "malformed", keys |-> {}],
     [kind |-> "json", keys |-> ConfigKeys]}
        \cup {[kind |-> "json", keys |-> ConfigKeys \ Lacking(k)] : k \in ConfigKeys}

RunPhases == {"download", "features", "metadata"}
NoStats == [phases |-> {}, errors |-> <<>>, final |-> FALSE]
NoStatsFile == [kind |-> "missing", data |-> NoStats]

\* What the PipelineManager keeps besides content and mpc.
pm_rest == <<state, disk, progress, progress_lock, file_paths, phase,
             max_workers, futures, pc, result, iter_used, snapshot, returned, batch_no,
             completed, lastOK, np_call, proc, done_order, how, init_raised>>

(***************************************************************************)
(* The feature cache: get_cached_features, cache_features, clean_temp_files*)
(***************************************************************************)
\* A path is its directory and its stem; the suffix is .mp3 throughout.
CachePaths == {[parent |-> "rock", stem |-> "x"],
               [parent |-> "jazz", stem |-> "x"],
               [parent |-> "rock", stem |-> "y"]}
MaxTempo == 2
\* The dicts cached: the empty one, or features with a value.
Features == {EmptyDict} \cup {[tempo |-> t] : t \in 1..MaxTempo}

\* self.temp_dir / f"{file_path.stem}_features.json"
cache_path(file_path) == file_path.stem \o "_features.json"

\* What get_cached_features returns for a path: None (found false) when the
\* cache file does not exist, else the parsed content of the file.
cached(file_path) ==
    IF cache_path(file_path) \in DOMAIN cache
    THEN [found |-> TRUE, value |-> cache[cache_path(file_path)]]
    ELSE [found |-> FALSE, value |-> EmptyDict]

NoCall == [op |-> "none", path |-> [parent |-> "", stem |-> ""],
           found |-> FALSE, value |-> EmptyDict]

get_cached_features(file_path) ==
    /\ last_call' = [op |-> "get", path |-> file_path,
                     found |-> cached(file_path).found, value |-> cached(file_path).value]
    /\ UNCHANGED <<cache, last_put>>
    /\ UNCHANGED <<content, mpc, pm_rest, orch_vars, quality_vars, validation_vars>>

cache_features(file_path, features) ==
    /\ cache' = (cache_path(file_path) :> features) @@ cache
    /\ last_put' = (file_path :> features) @@ last_put
    /\ last_call' = [op |-> "put", path |-> file_path, found |-> FALSE, value |-> features]
    /\ UNCHANGED <<content, mpc, pm_rest, orch_vars, quality_vars, validation_vars>>

\* shutil.rmtree(self.temp_dir); self.temp_dir.mkdir()
clean_temp_files ==
    /\ cache' = EmptyDict
    /\ last_put' = EmptyDict
    /\ last_call' = [NoCall EXCEPT !.op = "clean"]
    /\ UNCHANGED <<content, mpc, pm_rest, orch_vars, quality_vars, validation_vars>>

NoCache ==
    /\ cache = EmptyDict
    /\ last_put = EmptyDict
    /\ last_call = NoCall

(***************************************************************************)
(* OptimizedPipeline.run and its phases                                     *)
(***************************************************************************)
\* genre_dir.rglob("*.mp3") over the downloads directory.
ScanOrder == <<"a.mp3", "b.mp3">>
Exists(f) == content[f] # NoFile
Scan == SelectSeq(ScanOrder, Exists)

\* Mutant: the directories are set up before the config file is looked for.
OptimizedPipeline_init_dirs_first ==
    /\ opc = "absent"
    /\ dirs' = TRUE
    /\ IF config.kind # "json"
       THEN /\ opc' = "init_raised"
            /\ exc' = IF config.kind = "missing" THEN "FileNotFoundError" ELSE "JSONDecodeError"
            /\ UNCHANGED mpc
       ELSE /\ opc' = "constructing"
            /\ mpc' = "new"
            /\ UNCHANGED exc
    /\ UNCHANGED <<content, pm_rest, config, skip_phases, downloaded_files, stats,
                   stats_file, vpc, fpos, ext_features, processed_files, run_raised, phase_log,
                   cache_vars, quality_vars, validation_vars>>

\* __init__ up to PipelineManager(self.project_root): the config file is
\* tested and parsed, then setup_directories.
OptimizedPipeline_init ==
    /\ opc = "absent"
    /\ IF config.kind # "json"
       THEN /\ opc' = "init_raised"
            /\ exc' = IF config.kind = "missing" THEN "FileNotFoundError" ELSE "JSONDecodeError"
            /\ UNCHANGED <<dirs, mpc>>
       ELSE /\ opc' = "constructing"
            /\ dirs' = TRUE
            /\ mpc' = "new"
            /\ UNCHANGED exc
    /\ UNCHANGED <<content, pm_rest, config, skip_phases, downloaded_files, stats,
                   stats_file, vpc, fpos, ext_features, processed_files, run_raised, phase_log,
                   cache_vars, quality_vars, validation_vars>>

\* The rest of __init__, once PipelineManager has returned or raised.
OptimizedPipeline_init_end ==
    /\ opc = "constructing"
    /\ mpc \in {"idle", "aborted"}
    /\ IF mpc = "idle"
       THEN /\ opc' = "ready"
            /\ stats' = NoStats
            /\ UNCHANGED exc
       ELSE /\ opc' = "init_raised"
            /\ exc' = init_raised
            /\ UNCHANGED stats
    /\ UNCHANGED <<content, mpc, pm_rest, config, skip_phases, downloaded_files, dirs,
                   stats_file, vpc, fpos, ext_features, processed_files, run_raised, phase_log,
                   cache_vars, quality_vars, validation_vars>>

\* run(skip_phases): the download phase, or the scan that replaces it.
run_begin(skip) ==
    /\ opc = "ready"
    /\ skip_phases' = skip
    /\ IF "download" \notin skip
       THEN /\ opc' = "download"
            /\ phase_log' = Append(phase_log, "download")
            /\ UNCHANGED downloaded_files
       ELSE /\ opc' = "discovered"
            /\ downloaded_files' = Scan
            /\ UNCHANGED phase_log
    /\ UNCHANGED <<content, mpc, pm_rest, config, dirs, stats, stats_file, vpc, fpos,
                   ext_features, processed_files, exc, run_raised, cache_vars, quality_vars, validation_vars>>

\* An exception e inside process_downloads or extract_features: their except
\* clause appends to stats["errors"] and re-raises into run's try.
PhaseRaises(msg, e) ==
    /\ stats' = [stats EXCEPT !.errors = Append(@, msg \o e)]
    /\ exc' = e
    /\ opc' = "except"

\* process_downloads before anything is downloaded: MusicDownloadPipeline(..)
\* with its load_config, the AudioQualityValidator built from
\* validation_thresholds, the download_settings read for run's arguments.
process_downloads_setup ==
    /\ opc = "download"
    /\ IF ~({"download_settings", "download_settings.playlists"} \subseteq config.keys)
       THEN PhaseRaises("Download processing error: ", "ValueError")
       ELSE IF "validation_thresholds" \notin config.keys
       THEN PhaseRaises("Download processing error: ", "KeyError")
       ELSE /\ opc' = "downloading"
            /\ UNCHANGED <<stats, exc>>
    /\ UNCHANGED <<content, mpc, pm_rest, config, skip_phases, downloaded_files, dirs,
                   stats_file, vpc, fpos, ext_features, processed_files, run_raised, phase_log,
                   cache_vars, quality_vars, validation_vars>>

\* download_pipeline.run raises, or returns the files D it fetched; with none
\* fetched the directory is scanned; validation starts if there is a file.
download_run(D) ==
    /\ opc = "downloading"
    /\ D \subseteq {f \in Files : ~Exists(f)}
    /\ content' = [f \in DOMAIN content |-> IF f \in D THEN 1 ELSE content[f]]
    /\ downloaded_files' = SelectSeq(ScanOrder, LAMBDA f : IF D = {} THEN Exists(f) ELSE f \in D)
    /\ IF downloaded_files' # <<>>
       THEN /\ opc' = "validate"
            /\ vpc' = [f \in Files |-> IF f \in Range(downloaded_files') THEN "queued" ELSE "idle"]
            /\ phase_log' = Append(phase_log, "validate")
            /\ UNCHANGED stats
       ELSE /\ opc' = "discovered"
            /\ stats' = [stats EXCEPT !.phases = @ \cup {"download"}]
            /\ UNCHANGED <<vpc, phase_log>>
    /\ UNCHANGED <<mpc, pm_rest, config, skip_phases, dirs, stats_file, fpos,
                   ext_features, processed_files, exc, run_raised, cache_vars, quality_vars, validation_vars>>

download_raises ==
    /\ opc = "downloading"
    /\ PhaseRaises("Download processing error: ", "DownloadError")
    /\ UNCHANGED <<content, mpc, pm_rest, config, skip_phases, downloaded_files, dirs,
                   stats_file, vpc, fpos, ext_features, processed_files, run_raised, phase_log,
                   cache_vars, quality_vars, validation_vars>>

\* A worker of validate_dataset's pool takes a file.
validate_start(f) ==
    /\ opc = "validate"
    /\ vpc[f] = "queued"
    /\ vpc' = [vpc EXCEPT ![f] = "running"]
    /\ UNCHANGED <<content, mpc, pm_rest, config, opc, skip_phases, downloaded_files, dirs,
                   stats, stats_file, fpos, ext_features, processed_files, exc, run_raised, phase_log,
                   cache_vars, quality_vars, validation_vars>>

\* _worker_process returns the file's result.
validate_finish(f) ==
    /\ opc = "validate"
    /\ vpc[f] = "running"
    /\ vpc' = [vpc EXCEPT ![f] = "done"]
    /\ UNCHANGED <<content, mpc, pm_rest, config, opc, skip_phases, downloaded_files, dirs,
                   stats, stats_file, fpos, ext_features, processed_files, exc, run_raised, phase_log,
                   cache_vars, quality_vars, validation_vars>>

ValidationDone == \A f \in Files : vpc[f] \notin {"queued", "running"}

\* Mutant: the results are not waited for.
validate_end_without_barrier ==
    /\ opc = "validate"
    /\ opc' = "discovered"
    /\ stats' = [stats EXCEPT !.phases = @ \cup {"download"}]
    /\ UNCHANGED <<content, mpc, pm_rest, config, skip_phases, downloaded_files, dirs,
                   stats_file, vpc, fpos, ext_features, processed_files, exc, run_raised, phase_log,
                   cache_vars, quality_vars, validation_vars>>

\* list(pool.imap(..)) has every result; process_downloads records the phase
\* and returns.
validate_end ==
    /\ opc = "validate"
    /\ ValidationDone
    /\ opc' = "discovered"
    /\ stats' = [stats EXCEPT !.phases = @ \cup {"download"}]
    /\ UNCHANGED <<content, mpc, pm_rest, config, skip_phases, downloaded_files, dirs,
                   stats_file, vpc, fpos, ext_features, processed_files, exc, run_raised, phase_log,
                   cache_vars, quality_vars, validation_vars>>

\* The phase run goes to after feature extraction.
AfterFeatures == IF "metadata" \notin skip_phases THEN "metadata" ELSE "finish"

\* if not downloaded_files: return; else the feature phase unless skipped.
run_discovered ==
    /\ opc = "discovered"
    /\ IF downloaded_files = <<>>
       THEN /\ opc' = "returned"
            /\ UNCHANGED <<fpos, phase_log>>
       ELSE IF "features" \notin skip_phases
       THEN /\ opc' = "features"
            /\ fpos' = 1
            /\ phase_log' = Append(phase_log, "features")
       ELSE /\ opc' = AfterFeatures
            /\ phase_log' = IF AfterFeatures = "metadata"
                            THEN Append(phase_log, "metadata") ELSE phase_log
            /\ UNCHANGED fpos
    /\ UNCHANGED <<content, mpc, pm_rest, config, skip_phases, downloaded_files, dirs,
                   stats, stats_file, vpc, ext_features, processed_files, exc, run_raised,
                   cache_vars, quality_vars, validation_vars>>

\* Where rglob finds a downloaded file: in a genre directory, under its name.
PathOf(f) ==
    [parent |-> "rock",
     stem |-> CASE f = "a.mp3" -> "a" [] f = "b.mp3" -> "b" [] f = "c.mp3" -> "c"]

\* if cached_features: None and an empty dict both count as a miss.
Truthy(cached_features) ==
    cached_features.found /\ cached_features.value # EmptyDict

\* What FeatureExtractor.extract_features returns: a dict that is never empty.
Extracted == Features \ {EmptyDict}

\* One turn of extract_features' loop: the cache is asked; on a hit its
\* content is taken; else the extractor is called and its features are
\* cached and taken, or the exception is printed and the loop continues.
\* A file in processed_files stands for its features.
extract_features_file ==
    /\ opc = "features"
    /\ fpos <= Len(downloaded_files)
    /\ fpos' = fpos + 1
    /\ LET f == downloaded_files[fpos]
           file_path == PathOf(f)
           cached_features == cached(file_path)
           got == [op |-> "get", path |-> file_path,
                   found |-> cached_features.found, value |-> cached_features.value]
       IN  IF Truthy(cached_features)
           THEN /\ processed_files' = Append(processed_files, f)
                /\ last_call' = got
                /\ UNCHANGED <<ext_features, cache, last_put>>
           ELSE /\ ext_features' = ext_features \cup {f}
                /\ \/ \E features \in Extracted :
                         /\ cache' = (cache_path(file_path) :> features) @@ cache
                         /\ last_put' = (file_path :> features) @@ last_put
                         /\ last_call' = [op |-> "put", path |-> file_path,
                                          found |-> FALSE, value |-> features]
                         /\ processed_files' = Append(processed_files, f)
                   \/ /\ last_call' = got
                      /\ UNCHANGED <<cache, last_put, processed_files>>
    /\ UNCHANGED <<content, mpc, pm_rest, config, opc, skip_phases, downloaded_files, dirs,
                   stats, stats_file, vpc, exc, run_raised, phase_log, quality_vars, validation_vars>>

\* After the loop features.json is written and the phase recorded, or the
\* write raises.
extract_features_end ==
    /\ opc = "features"
    /\ fpos > Len(downloaded_files)
    /\ \/ /\ opc' = AfterFeatures
          /\ stats' = [stats EXCEPT !.phases = @ \cup {"feature_extraction"}]
          /\ phase_log' = IF AfterFeatures = "metadata"
                          THEN Append(phase_log, "metadata") ELSE phase_log
          /\ UNCHANGED exc
       \/ /\ PhaseRaises("Feature extraction error: ", "OSError")
          /\ UNCHANGED phase_log
    /\ UNCHANGED <<content, mpc, pm_rest, config, skip_phases, downloaded_files, dirs,
                   stats_file, vpc, fpos, ext_features, processed_files, run_raised,
                   cache_vars, quality_vars, validation_vars>>

\* self.pipeline_manager.process_batch(downloaded_files, .., phase="metadata")
\* has returned.
run_metadata_end ==
    /\ opc = "metadata"
    /\ mpc = "idle"
    /\ batch_no > 0
    /\ opc' = "finish"
    /\ stats' = [stats EXCEPT !.phases = @ \cup {"metadata"}]
    /\ UNCHANGED <<content, mpc, pm_rest, config, skip_phases, downloaded_files, dirs,
                   stats_file, vpc, fpos, ext_features, processed_files, exc, run_raised, phase_log,
                   cache_vars, quality_vars, validation_vars>>

\* Final statistics are written; then config['processing']['keep_temp_files']
\* is read, inside the same try, and clean_temp_files is called if it is false.
run_finish ==
    /\ opc = "finish"
    /\ stats' = [stats EXCEPT !.final = TRUE]
    /\ stats_file' = [kind |-> "json", data |-> stats']
    /\ IF "processing" \in config.keys
       THEN /\ opc' = "returned"
            /\ UNCHANGED exc
            /\ \/ UNCHANGED cache_vars
               \/ /\ cache' = EmptyDict
                  /\ last_put' = EmptyDict
                  /\ last_call' = [NoCall EXCEPT !.op = "clean"]
       ELSE /\ opc' = "except"
            /\ exc' = "KeyError"
            /\ UNCHANGED cache_vars
    /\ UNCHANGED <<content, mpc, pm_rest, config, skip_phases, downloaded_files, dirs,
                   vpc, fpos, ext_features, processed_files, run_raised, phase_log,
                   quality_vars, validation_vars>>

\* Mutant: the except clause re-raises without writing the statistics.
run_except_without_write ==
    /\ opc = "except"
    /\ stats' = [stats EXCEPT !.errors = Append(@, "Pipeline error: " \o exc)]
    /\ run_raised' = exc
    /\ opc' = "raised"
    /\ UNCHANGED <<content, mpc, pm_rest, config, skip_phases, downloaded_files, dirs,
                   stats_file, vpc, fpos, ext_features, processed_files, exc, phase_log,
                   cache_vars, quality_vars, validation_vars>>

\* except Exception as e: the error is appended, the statistics written, raise.
run_except ==
    /\ opc = "except"
    /\ stats' = [stats EXCEPT !.errors = Append(@, "Pipeline error: " \o exc)]
    /\ stats_file' = [kind |-> "json", data |-> stats']
    /\ run_raised' = exc
    /\ opc' = "raised"
    /\ UNCHANGED <<content, mpc, pm_rest, config, skip_phases, downloaded_files, dirs,
                   vpc, fpos, ext_features, processed_files, exc, phase_log,
                   cache_vars, quality_vars, validation_vars>>

\* No OptimizedPipeline object, nothing of a run.
OrchestratorAtRest ==
    /\ opc = "absent"
    /\ skip_phases = {}
    /\ downloaded_files = <<>>
    /\ dirs = FALSE
    /\ stats = NoStats
    /\ stats_file = NoStatsFile
    /\ vpc = [f \in Files |-> "idle"]
    /\ fpos = 0
    /\ ext_features = {}
    /\ processed_files = <<>>
    /\ exc = ""
    /\ run_raised = ""
    /\ phase_log = <<>>
NoOrchestrator ==
    /\ config = [kind |-> "missing", keys |-> {}]
    /\ OrchestratorAtRest

(***************************************************************************)
(* AudioQualityValidator.check_audio_quality                               *)
(***************************************************************************)
MinDuration == 2
MaxDuration == 4
MaxChunk == 2
MaxMetric == 2

\* _process_audio_chunk: rms, peak and zero_crossing_rate always, the two
\* spectral keys when len(spectral) > 0.  One value per chunk stands for its
\* measurements.
BasicKeys == {"rms", "peak", "zero_crossing_rate"}
SpectralKeys == {"spectral_centroid", "spectral_rolloff"}
ChunkMetrics ==
    {[key \in K |-> v] : K \in {BasicKeys, BasicKeys \cup SpectralKeys}, v \in 1..MaxMetric}

RECURSIVE Sum(_)
Sum(values) == IF values = <<>> THEN 0 ELSE values[1] + Sum(Tail(values))
\* np.mean(values), kept as the fraction sum / count.
Mean(values) == [sum |-> Sum(values), count |-> Len(values)]

\* [m[key] for m in metrics_list if key in m]
ValuesOf(metrics_list, key) ==
    LET having == SelectSeq(metrics_list, LAMBDA m : key \in DOMAIN m)
    IN  [k \in 1..Len(having) |-> having[k][key]]

\* _aggregate_metrics: the keys are those of the first dict of the list.
aggregate_metrics(metrics_list) ==
    IF metrics_list = <<>>
    THEN EmptyDict
    ELSE [key \in DOMAIN metrics_list[1] |-> Mean(ValuesOf(metrics_list, key))]

\* dict.update
Updated(d, e) == [k \in DOMAIN d \cup DOMAIN e |-> IF k \in DOMAIN e THEN e[k] ELSE d[k]]

NoResult == [passed |-> FALSE, issues |-> <<>>, metrics |-> EmptyDict]

\* except Exception as e: the message is appended and the tuple returned.
AnalysisFails ==
    /\ issues' = Append(issues, "Error analyzing file")
    /\ qresult' = [passed |-> FALSE, issues |-> issues', metrics |-> metrics']
    /\ qpc' = "done"

\* librosa.get_duration and the minimum duration test.
check_audio_quality_begin ==
    /\ qpc = "start"
    /\ \/ /\ UNCHANGED metrics
          /\ AnalysisFails
          /\ UNCHANGED chunk_start
       \/ /\ metrics' = [duration |-> duration]
          /\ IF duration < MinDuration
             THEN /\ issues' = Append(issues, "Duration too short")
                  /\ qresult' = [passed |-> FALSE, issues |-> issues', metrics |-> metrics']
                  /\ qpc' = "done"
                  /\ UNCHANGED chunk_start
             ELSE /\ qpc' = "loop"
                  /\ chunk_start' = 0
                  /\ UNCHANGED <<issues, qresult>>
    /\ UNCHANGED <<duration, chunk_duration, accumulated_metrics, windows>>
    /\ UNCHANGED <<content, mpc, pm_rest, orch_vars, cache_vars, validation_vars>>

\* What the first turn of the loop records before the chunk is measured.
FirstChunk(low_rate) ==
    IF windows = <<>>
    THEN [metrics |-> Updated(metrics, [sample_rate |-> IF low_rate THEN "low" ELSE "ok"]),
          issues |-> IF low_rate THEN Append(issues, "Sample rate too low") ELSE issues]
    ELSE [metrics |-> metrics, issues |-> issues]

\* Mutant: every window has the full chunk size, the last one too.
Window_of_full_size(outcome) ==
    [start |-> chunk_start, length |-> chunk_duration, outcome |-> outcome]

\* The window of the loop's current turn.
Window(outcome) ==
    [start |-> chunk_start,
     length |-> IF chunk_duration < duration - chunk_start
                THEN chunk_duration ELSE duration - chunk_start,
     outcome |-> outcome]

\* One turn of the loop: the chunk is loaded and measured.
check_audio_quality_chunk(chunk_metrics, low_rate) ==
    /\ qpc = "loop"
    /\ chunk_start < duration
    /\ windows' = Append(windows, Window("ok"))
    /\ windows = <<>> \/ low_rate = FALSE
    /\ metrics' = FirstChunk(low_rate).metrics
    /\ issues' = FirstChunk(low_rate).issues
    /\ accumulated_metrics' = Append(accumulated_metrics, chunk_metrics)
    /\ chunk_start' = chunk_start + chunk_duration
    /\ UNCHANGED <<duration, chunk_duration, qpc, qresult>>
    /\ UNCHANGED <<content, mpc, pm_rest, orch_vars, cache_vars, validation_vars>>

\* Mutant: a chunk that raises is left out and the loop goes on.
check_audio_quality_chunk_raises_and_continues(where, low_rate) ==
    /\ qpc = "loop"
    /\ chunk_start < duration
    /\ windows = <<>> \/ low_rate = FALSE
    /\ windows' = Append(windows, Window(where))
    /\ chunk_start' = chunk_start + chunk_duration
    /\ UNCHANGED <<metrics, issues, qresult, qpc>>
    /\ UNCHANGED <<duration, chunk_duration, accumulated_metrics>>
    /\ UNCHANGED <<content, mpc, pm_rest, orch_vars, cache_vars, validation_vars>>

\* One turn of the loop in which librosa.load or _process_audio_chunk raises;
\* the sample rate of the first chunk is recorded between the two.
check_audio_quality_chunk_raises(where, low_rate) ==
    /\ qpc = "loop"
    /\ chunk_start < duration
    /\ windows = <<>> \/ low_rate = FALSE
    /\ where = "load" => low_rate = FALSE
    /\ windows' = Append(windows, Window(where))
    /\ metrics' = IF where = "process" THEN FirstChunk(low_rate).metrics ELSE metrics
    /\ issues' = Append(IF where = "process" THEN FirstChunk(low_rate).issues ELSE issues,
                        "Error analyzing file")
    /\ qresult' = [passed |-> FALSE, issues |-> issues', metrics |-> metrics']
    /\ qpc' = "done"
    /\ UNCHANGED <<duration, chunk_duration, chunk_start, accumulated_metrics>>
    /\ UNCHANGED <<content, mpc, pm_rest, orch_vars, cache_vars, validation_vars>>

\* After the loop: aggregation, clipping ratio, dynamic range, the result.
check_audio_quality_end(clipping, low_range) ==
    /\ qpc = "loop"
    /\ chunk_start >= duration
    /\ LET aggregated == Updated(metrics, aggregate_metrics(accumulated_metrics))
           with_clipping == IF clipping THEN Append(issues, "Excessive clipping") ELSE issues
           clipped == Updated(aggregated, [clipping_ratio |-> IF clipping THEN "high" ELSE "ok"])
       IN  IF {"peak", "rms"} \subseteq DOMAIN clipped
           THEN /\ metrics' = Updated(clipped, [dynamic_range |-> IF low_range THEN "low" ELSE "ok"])
                /\ issues' = IF low_range THEN Append(with_clipping, "Low dynamic range")
                             ELSE with_clipping
           ELSE /\ low_range = FALSE
                /\ metrics' = clipped
                /\ issues' = with_clipping
    /\ qresult' = [passed |-> issues' = <<>>, issues |-> issues', metrics |-> metrics']
    /\ qpc' = "done"
    /\ UNCHANGED <<duration, chunk_duration, chunk_start, accumulated_metrics, windows>>
    /\ UNCHANGED <<content, mpc, pm_rest, orch_vars, cache_vars, validation_vars>>

NoQuality ==
    /\ duration = 0
    /\ chunk_duration = 1
    /\ qpc = "idle"
    /\ chunk_start = 0
    /\ accumulated_metrics = <<>>
    /\ issues = <<>>
    /\ metrics = EmptyDict
    /\ qresult = NoResult
    /\ windows = <<>>

(***************************************************************************)
(* validate_dataset and the merge of its results in process_downloads      *)
(***************************************************************************)
MaxBatchSize == 2

\* How the analysis of one file ends: process_file returns the verdict of
\* check_audio_quality, with all the metrics or with the duration alone (a
\* file that is too short), or the failed result of its own except clause,
\* or it raises into _worker_process.
FileOutcomes ==
    {[kind |-> k, metrics |-> [duration |-> v, rms |-> v]] : k \in {"passed", "failed"}, v \in 1..MaxMetric}
        \cup {[kind |-> "failed", metrics |-> [duration |-> v]] : v \in 1..MaxMetric}
        \cup {[kind |-> "error", metrics |-> EmptyDict], [kind |-> "raised", metrics |-> EmptyDict]}

\* _worker_process: the result of process_file, or the failed result built
\* in its except clause.
worker_process(audio_path, outcome) ==
    IF outcome.kind = "raised"
    THEN [passed |-> FALSE, metrics |-> EmptyDict, filename |-> audio_path,
          validation_extracted |-> FALSE, issue |-> "Processing error"]
    ELSE [passed |-> outcome.kind = "passed", metrics |-> outcome.metrics,
          filename |-> audio_path,
          validation_extracted |-> outcome.kind \in {"passed", "failed"},
          issue |-> CASE outcome.kind = "passed" -> "none"
                      [] outcome.kind = "failed" -> "quality"
                      [] OTHER -> "Error validating"]

RECURSIVE CountPassed(_)
CountPassed(rs) ==
    IF rs = <<>> THEN 0
    ELSE (IF rs[1].passed THEN 1 ELSE 0) + CountPassed(Tail(rs))

\* The metrics of the results that have any: if result.get("metrics").
MetricsOf(rs) ==
    LET having == SelectSeq(rs, LAMBDA r : r.metrics # EmptyDict)
    IN  [k \in 1..Len(having) |-> having[k].metrics]

EmptyResults ==
    [files |-> EmptyDict,
     summary |-> [total_files |-> 0, passed_files |-> 0, failed_files |-> 0,
                  average_metrics |-> EmptyDict]]

\* validate_dataset on a list of files, given the results the pool returned:
\* the counts, the failed results by file name, the averaged metrics.
validate_dataset(rs) ==
    [files |-> [name \in {rs[k].filename : k \in {j \in 1..Len(rs) : ~rs[j].passed}} |->
                   rs[CHOOSE k \in 1..Len(rs) :
                         /\ rs[k].filename = name /\ ~rs[k].passed
                         /\ \A j \in (k + 1)..Len(rs) : rs[j].filename = name => rs[j].passed]],
     summary |-> [total_files |-> Len(rs),
                  passed_files |-> CountPassed(rs),
                  failed_files |-> Len(rs) - CountPassed(rs),
                  average_metrics |-> aggregate_metrics(MetricsOf(rs))]]

\* (x + y) / 2 on two fractions.
HalfSum(x, y) ==
    [sum |-> x.sum * y.count + y.sum * x.count, count |-> 2 * x.count * y.count]

\* Two fractions that are the same number.
SameNumber(x, y) == x.sum * y.count = y.sum * x.count

\* Mutant: the counts of the new batch replace those merged so far.
merge_results_taking_last_counts(total, batch) ==
    [files |-> Updated(total.files, batch.files),
     summary |->
        [total_files |-> batch.summary.total_files,
         passed_files |-> batch.summary.passed_files,
         failed_files |-> batch.summary.failed_files,
         average_metrics |->
            IF total.summary.average_metrics = EmptyDict
            THEN batch.summary.average_metrics
            ELSE [metric \in DOMAIN total.summary.average_metrics |->
                     IF metric \in DOMAIN batch.summary.average_metrics
                     THEN HalfSum(total.summary.average_metrics[metric],
                                  batch.summary.average_metrics[metric])
                     ELSE total.summary.average_metrics[metric]]]]

\* process_downloads merging the results of a batch into total_results.
merge_results(total, batch) ==
    [files |-> Updated(total.files, batch.files),
     summary |->
        [total_files |-> total.summary.total_files + batch.summary.total_files,
         passed_files |-> total.summary.passed_files + batch.summary.passed_files,
         failed_files |-> total.summary.failed_files + batch.summary.failed_files,
         average_metrics |->
            IF total.summary.average_metrics = EmptyDict
            THEN batch.summary.average_metrics
            ELSE [metric \in DOMAIN total.summary.average_metrics |->
                     IF metric \in DOMAIN batch.summary.average_metrics
                     THEN HalfSum(total.summary.average_metrics[metric],
                                  batch.summary.average_metrics[metric])
                     ELSE total.summary.average_metrics[metric]]]]

\* batch = downloaded_files[i:i + batch_size]
NextBatchOf(files, i, size) ==
    SubSeq(files, i + 1, IF i + size < Len(files) THEN i + size ELSE Len(files))

\* One turn of the loop over the batches: validate_dataset on the batch, each
\* of its files ending in one of the outcomes, and the merge.
validate_batch(outcomes) ==
    /\ vpos < Len(audio_files)
    /\ LET batch == NextBatchOf(audio_files, vpos, batch_size)
       IN  /\ DOMAIN outcomes = 1..Len(batch)
           /\ LET rs == [k \in 1..Len(batch) |-> worker_process(batch[k], outcomes[k])]
              IN  /\ results' = results \o rs
                  /\ batch_results' = validate_dataset(rs)
                  /\ total_results' = merge_results(total_results, validate_dataset(rs))
    /\ vpos' = vpos + batch_size
    /\ UNCHANGED <<audio_files, batch_size>>
    /\ UNCHANGED <<content, mpc, pm_rest, orch_vars, cache_vars, quality_vars>>

NoValidation ==
    /\ audio_files = <<>>
    /\ batch_size = 1
    /\ vpos = 0
    /\ results = <<>>
    /\ batch_results = EmptyResults
    /\ total_results = EmptyResults

(***************************************************************************)
(* Specifications                                                          *)
(***************************************************************************)
\* What __init__ and the absence of any process_batch call leave.
InitCommon ==
    /\ progress = [total_files |-> 0, processed_files |-> 0, current_phase |-> ""]
    /\ progress_lock = Unlocked
    /\ file_paths = <<>>
    /\ futures = <<>>
    /\ phase = ""
    /\ max_workers = DefaultMaxWorkers
    /\ pc = <<>>
    /\ result = <<>>
    /\ iter_used = <<>>
    /\ snapshot = <<>>
    /\ returned = <<>>
    /\ batch_no = 0
    /\ completed = EmptyDict
    /\ lastOK = EmptyDict
    /\ np_call = <<>>
    /\ proc = <<>>
    /\ done_order = <<>>
    /\ how = <<>>
    /\ init_raised = ""

\* A PipelineManager constructed in a project without a state file.
InitFresh ==
    /\ mpc = "idle"
    /\ state = EmptyDict
    /\ disk = NoStateFile
    /\ InitCommon

\* Several batches over two files, any phase; a.mp3 is there from the start,
\* files are downloaded or rewritten between batches.
Init ==
    /\ content = [f \in AllFiles |-> IF f = "a.mp3" THEN 1 ELSE NoFile]
    /\ InitFresh
    /\ NoOrchestrator
    /\ NoCache
    /\ NoQuality
    /\ NoValidation

Next ==
    \/ \E fs \in SeqsUpTo(Files, MaxBatchLen), ph \in PhaseNames, mw \in 1..MaxWorkers :
           process_batch_begin(fs, ph, mw)
    \/ \E i \in Tasks : process_file_check(i)
    \/ \E i \in Tasks : process_file_call(i)
    \/ \E i \in Tasks : process_file_update(i)
    \/ \E i \in Tasks : save_state_begin(i)
    \/ \E i \in Tasks : save_state_iter(i)
    \/ \E i \in Tasks : save_state_open(i)
    \/ \E i \in Tasks : save_state_write(i)
    \/ \E i \in Tasks : process_file_lock(i)
    \/ \E i \in Tasks : process_file_progress(i)
    \/ process_batch_wait
    \/ process_batch_open
    \/ process_batch_save
    \/ process_batch_return
    \/ \E f \in Files, h \in Hashes : ChangeContent(f, h)

Spec == Init /\ [][Next]_vars

\* One call as OptimizedPipeline.run makes it: three files of a fresh project,
\* phase "metadata", the default max_workers.
InitBatch ==
    /\ content = [f \in AllFiles |-> 1]
    /\ InitFresh
    /\ NoOrchestrator
    /\ NoCache
    /\ NoQuality
    /\ NoValidation

NextBatch ==
    \/ process_batch_begin(BatchFiles, "metadata", DefaultMaxWorkers)
    \/ \E i \in Tasks : process_file_check(i)
    \/ \E i \in Tasks : process_file_call(i)
    \/ \E i \in Tasks : process_file_update(i)
    \/ \E i \in Tasks : save_state_begin(i)
    \/ \E i \in Tasks : save_state_iter(i)
    \/ \E i \in Tasks : save_state_open(i)
    \/ \E i \in Tasks : save_state_write(i)
    \/ \E i \in Tasks : process_file_lock(i)
    \/ \E i \in Tasks : process_file_progress(i)
    \/ process_batch_wait
    \/ process_batch_open
    \/ process_batch_save
    \/ process_batch_return

SpecBatch == InitBatch /\ [][NextBatch]_vars

\* The scheduling process_batch relies on: a pool thread that can take a step
\* takes it (the Processor returns or raises, a free lock is acquired), and so
\* does the thread that called process_batch.
WorkerStep(i) ==
    \/ process_file_check(i)
    \/ process_file_call(i)
    \/ process_file_update(i)
    \/ save_state_begin(i)
    \/ save_state_iter(i)
    \/ save_state_open(i)
    \/ save_state_write(i)
    \/ process_file_lock(i)
    \/ process_file_progress(i)
CallerStep ==
    \/ process_batch_wait
    \/ process_batch_open
    \/ process_batch_save
Fairness ==
    /\ \A i \in 1..Len(BatchFiles) : WF_vars(WorkerStep(i))
    /\ WF_vars(CallerStep)
SpecBatchFair == SpecBatch /\ Fairness

\* The state files a start-up can find: none, text that does not parse, or a
\* JSON object whose entries carry any subset of the required fields.
StoredEntries ==
    {[x \in S |-> CASE x = "hash" -> h
                    [] x = "last_processed" -> "time"
                    [] OTHER -> TRUE] : S \in SUBSET required_fields, h \in Hashes}
StateFiles ==
    {NoStateFile, Truncated}
        \cup {[kind |-> "json", data |-> d] :
                 d \in UNION {[K -> StoredEntries] : K \in SUBSET Files}}

\* PipelineManager(project_root) over each of these files.
InitLoad ==
    /\ content = [f \in AllFiles |-> IF f \in Files THEN 1 ELSE NoFile]
    /\ mpc = "new"
    /\ state = EmptyDict
    /\ disk \in StateFiles
    /\ InitCommon
    /\ NoOrchestrator
    /\ NoCache
    /\ NoQuality
    /\ NoValidation

NextLoad == PipelineManager_init

SpecLoad == InitLoad /\ [][NextLoad]_vars

\* What an earlier run that kept its temp files left in the cache: nothing,
\* or an artifact for a.mp3.
LeftInCache ==
    {EmptyDict} \cup {(PathOf("a.mp3") :> features) : features \in Features}

\* main(): OptimizedPipeline(config_path, project_dir) then run(skip_phases),
\* over each config file, with a.mp3 already downloaded or not, and with the
\* state file absent or left empty by an interrupted save.
InitRun ==
    /\ content \in {[f \in AllFiles |-> IF f = "a.mp3" THEN h ELSE NoFile] : h \in {NoFile, 1}}
    /\ mpc = "absent"
    /\ state = EmptyDict
    /\ disk \in {NoStateFile, Truncated}
    /\ InitCommon
    /\ config \in Configs
    /\ OrchestratorAtRest
    /\ last_put \in LeftInCache
    /\ cache = [k \in {cache_path(file_path) : file_path \in DOMAIN last_put} |->
                  last_put[CHOOSE file_path \in DOMAIN last_put : cache_path(file_path) = k]]
    /\ last_call = NoCall
    /\ NoQuality
    /\ NoValidation

NextRun ==
    \/ OptimizedPipeline_init
    \/ PipelineManager_init
    \/ OptimizedPipeline_init_end
    \/ \E skip \in SUBSET RunPhases : run_begin(skip)
    \/ process_downloads_setup
    \/ \E D \in SUBSET Files : download_run(D)
    \/ download_raises
    \/ \E f \in Files : validate_start(f)
    \/ \E f \in Files : validate_finish(f)
    \/ validate_end
    \/ run_discovered
    \/ extract_features_file
    \/ extract_features_end
    \/ (opc = "metadata" /\ batch_no = 0
            /\ process_batch_begin(downloaded_files, "metadata", DefaultMaxWorkers))
    \/ \E i \in Tasks : process_file_check(i)
    \/ \E i \in Tasks : process_file_call(i)
    \/ \E i \in Tasks : process_file_update(i)
    \/ \E i \in Tasks : save_state_begin(i)
    \/ \E i \in Tasks : save_state_iter(i)
    \/ \E i \in Tasks : save_state_open(i)
    \/ \E i \in Tasks : save_state_write(i)
    \/ \E i \in Tasks : process_file_lock(i)
    \/ \E i \in Tasks : process_file_progress(i)
    \/ process_batch_wait
    \/ process_batch_open
    \/ process_batch_save
    \/ process_batch_return
    \/ run_metadata_end
    \/ run_finish
    \/ run_except

SpecRun == InitRun /\ [][NextRun]_vars

\* Any sequence of cache calls on three paths, two of them with the same file
\* name in different genre directories.
InitCache ==
    /\ content = [f \in AllFiles |-> IF f = "a.mp3" THEN 1 ELSE NoFile]
    /\ InitFresh
    /\ NoOrchestrator
    /\ NoCache
    /\ NoQuality
    /\ NoValidation

NextCache ==
    \/ \E file_path \in CachePaths : get_cached_features(file_path)
    \/ \E file_path \in CachePaths, features \in Features : cache_features(file_path, features)
    \/ clean_temp_files

SpecCache == InitCache /\ [][NextCache]_vars

\* check_audio_quality on one file, for each duration and chunk size.
InitQuality ==
    /\ content = [f \in AllFiles |-> IF f = "a.mp3" THEN 1 ELSE NoFile]
    /\ InitFresh
    /\ NoOrchestrator
    /\ NoCache
    /\ duration \in 0..MaxDuration
    /\ chunk_duration \in 1..MaxChunk
    /\ qpc = "start"
    /\ chunk_start = 0
    /\ accumulated_metrics = <<>>
    /\ issues = <<>>
    /\ metrics = EmptyDict
    /\ qresult = NoResult
    /\ windows = <<>>
    /\ NoValidation

NextQuality ==
    \/ check_audio_quality_begin
    \/ \E chunk_metrics \in ChunkMetrics, low_rate \in BOOLEAN :
           check_audio_quality_chunk(chunk_metrics, low_rate)
    \/ \E where \in {"load", "process"}, low_rate \in BOOLEAN :
           check_audio_quality_chunk_raises(where, low_rate)
    \/ \E clipping \in BOOLEAN, low_range \in BOOLEAN :
           check_audio_quality_end(clipping, low_range)

SpecQuality == InitQuality /\ [][NextQuality]_vars

\* The validation of process_downloads over one to three files, in batches of
\* one or two, every file ending in any of the outcomes.
InitValidate ==
    /\ content = [f \in AllFiles |-> 1]
    /\ InitFresh
    /\ NoOrchestrator
    /\ NoCache
    /\ NoQuality
    /\ audio_files \in {SubSeq(BatchFiles, 1, n) : n \in 1..Len(BatchFiles)}
    /\ batch_size \in 1..MaxBatchSize
    /\ vpos = 0
    /\ results = <<>>
    /\ batch_results = EmptyResults
    /\ total_results = EmptyResults

NextValidate ==
    \E outcomes \in SeqsUpTo(FileOutcomes, MaxBatchSize) : validate_batch(outcomes)

SpecValidate == InitValidate /\ [][NextValidate]_vars

(***************************************************************************)
(* Claims                                                                  *)
(***************************************************************************)

\* C1: whenever a stored flag for phase P is true, the Processor for P has
\* completed on that file at the content hash the entry stores.
C1_FlagMeansCompletedOnStoredHash ==
    \A f \in DOMAIN state : \A P \in PhaseNames :
        PhaseFlag(state[f], P) => Count(completed, <<f, P, state[f].hash>>) > 0

\* C2: when process_file commits phase P for a file whose stored hash differs
\* from its current hash, no flag of another phase Q that was true stays true
\* in the committed FileState, and needs_processing(file, Q) then returns true.
C2_NoFlagCarriedAcrossHashChange ==
    [][\A i \in Tasks :
          LET f == file_paths[i]
          IN  (/\ pc[i] = "update"
               /\ pc'[i] = "save_begin"
               /\ f \in DOMAIN state
               /\ state[f].hash # content[f])
              => \A Q \in PhaseNames \ {phase} :
                    PhaseFlag(state[f], Q) =>
                        /\ ~PhaseFlag(state'[f], Q)
                        /\ needs_processing(f, Q)'.result]_vars

\* C3: for a file whose entry stores its current hash, needs_processing
\* returns the negation of the stored flag, without raising, for each of the
\* four phases.
C3_NeedsProcessingIsNegatedFlag ==
    \A f \in DOMAIN state :
        state[f].hash = content[f] =>
            \A P \in PhaseNames :
                LET np == needs_processing(f, P)
                IN  ~np.raised /\ (np.result <=> ~PhaseFlag(state[f], P))

\* C4: for a file whose entry stores a hash other than its current one,
\* needs_processing returns true for every phase name, whatever the flags.
C4_HashMismatchNeedsProcessing ==
    \A f \in DOMAIN state :
        (content[f] # NoFile /\ state[f].hash # content[f]) =>
            \A P \in PhaseNames \cup OtherPhaseNames :
                LET np == needs_processing(f, P)
                IN  ~np.raised /\ np.result

\* C4 witness: an entry with a true flag for the phase being run and a stale
\* hash, whose task was sent on to the Processor.
C4_Witness ==
    \E i \in Tasks :
        LET f == file_paths[i]
        IN  /\ pc[i] = "process"
            /\ f \in DOMAIN state
            /\ state[f].hash # content[f]
            /\ PhaseFlag(state[f], phase)

\* C5: for a file with no entry in the store, needs_processing returns true
\* for every phase name.
C5_NoEntryNeedsProcessing ==
    \A f \in AllFiles \ DOMAIN state :
        \A P \in PhaseNames \cup OtherPhaseNames :
            LET np == needs_processing(f, P)
            IN  ~np.raised /\ np.result

\* C5 witness: a task whose file has no entry was sent on to the Processor
\* while another file already has one.
C5_Witness ==
    \E i \in Tasks :
        /\ pc[i] = "process"
        /\ file_paths[i] \notin DOMAIN state
        /\ DOMAIN state # {}

\* C6: a needs_processing call computes the file's hash exactly when the file
\* has an entry, and inspects the phase flag only after computing the hash.
C6_HashIffEntryAndBeforeFlag ==
    /\ \A i \in Tasks :
          LET c == np_call[i]
          IN  c.trace # <<>> =>
                /\ ("hash" \in Range(c.trace)) <=> c.had_entry
                /\ \A k \in 1..Len(c.trace) :
                      c.trace[k] = "getattr" => \E j \in 1..(k - 1) : c.trace[j] = "hash"
    /\ \A f \in AllFiles : \A P \in PhaseNames \cup OtherPhaseNames :
          LET t == needs_processing(f, P).trace
          IN  /\ ("hash" \in Range(t)) <=> (f \in DOMAIN state)
              /\ \A k \in 1..Len(t) :
                    t[k] = "getattr" => \E j \in 1..(k - 1) : t[j] = "hash"

\* C6 witness: in one batch, one call without an entry (no hash) and one call
\* that went on to the flag after hashing.
C6_Witness ==
    \E i, j \in Tasks :
        /\ np_call[i] = [had_entry |-> FALSE, trace |-> <<"lookup">>]
        /\ np_call[j] = [had_entry |-> TRUE, trace |-> <<"lookup", "hash", "getattr">>]

\* C7: no task is ever sent to the Processor for a (file, phase) whose
\* process_file returned True in an earlier batch with the content unchanged
\* since: a second run of the phase invokes the Processor zero times.
C7_SecondRunInvokesNothing ==
    \A i \in Tasks :
        pc[i] = "process" =>
            Count(lastOK, <<file_paths[i], phase>>) \in {0, batch_no}

\* C7 witness: a second batch has returned; it re-ran "validated" or
\* "standardized" over a file that succeeded in the batch before and is
\* unchanged since, and that file got no Processor call.
C7_Witness ==
    /\ mpc = "returned"
    /\ phase \in {"validated", "standardized"}
    /\ \E i \in Tasks :
          /\ Count(lastOK, <<file_paths[i], phase>>) = batch_no - 1
          /\ batch_no > 1
          /\ np_call[i].had_entry
          /\ proc[i] = "none"

\* C8: the Processor completes at most once per (file, phase, content hash).
C8_AtMostOnceCompletion ==
    \A x \in DOMAIN completed : completed[x] <= 1

\* C9: when a batch of distinct files that all went to the Processor returns,
\* and the Processor raised for exactly one of them, every other file's outcome
\* is True and only that file's is False.
C9_OneFailureLeavesOthersSuccessful ==
    (/\ mpc = "returned"
     /\ \A i, j \in Tasks : file_paths[i] = file_paths[j] => i = j
     /\ \A i \in Tasks : proc[i] # "none"
     /\ Cardinality({i \in Tasks : proc[i] = "raised"}) = 1)
    => /\ Len(returned) = Len(file_paths)
       /\ \A i \in Tasks : returned[i] <=> (proc[i] = "ok")

\* C10: the returned list is as long as the input list and its i-th element
\* is what process_file returned for the i-th input file.
C10_ResultsInInputOrder ==
    mpc = "returned" =>
        /\ Len(returned) = Len(file_paths)
        /\ \A i \in Tasks : returned[i] = result[i]

\* C10 witness: the second task finished first, and the two outcomes differ.
C10_Witness ==
    /\ mpc = "returned"
    /\ done_order = <<2, 1>>
    /\ returned[1] # returned[2]

\* C11: in the list a batch returns, a file that was processed, a file that
\* was skipped (missing, or needs_processing false) and a file whose
\* processing failed have pairwise different outcome values.
C11_OutcomeTellsThreeCasesApart ==
    mpc = "returned" =>
        \A i, j \in Tasks : how[i] # how[j] => returned[i] # returned[j]

\* C12: the step in which the Processor raises for a task changes neither
\* self.state nor the state file; from then on, unless another task of the
\* batch handles the same file, needs_processing is true for the file; and an
\* entry of self.state changes only in the commit of a task of that file whose
\* Processor call has returned.
C12_RaiseLeavesStoreAlone ==
    [][/\ \A i \in DOMAIN pc \cap DOMAIN pc' :
             /\ (proc[i] # "raised" /\ proc'[i] = "raised")
                    => (state' = state /\ disk' = disk)
             /\ (/\ proc'[i] = "raised"
                 /\ \A j \in DOMAIN pc' : file_paths'[j] = file_paths'[i] => j = i)
                    => needs_processing(file_paths[i], phase)'.result
       /\ \A f \in AllFiles :
             (f \in DOMAIN state' /\ (f \in DOMAIN state => state'[f] # state[f]))
                 => \E i \in DOMAIN pc :
                        file_paths[i] = f /\ pc[i] = "update" /\ proc[i] = "ok"]_vars

\* C12 witness: a batch has returned in which the Processor raised for a file
\* that already had an entry, while another file of the batch was committed.
C12_Witness ==
    /\ mpc = "returned"
    /\ \E i, j \in Tasks :
          /\ proc[i] = "raised"
          /\ np_call[i].had_entry
          /\ needs_processing(file_paths[i], phase).result
          /\ file_paths[j] # file_paths[i]
          /\ returned[j]

\* C13: a task whose file does not exist ends in its first step with the
\* outcome False of a skip, without a Processor call and without a
\* needs_processing call (so without a hash), and that step changes neither
\* self.state nor the state file.
C13_MissingFileIsSkipped ==
    [][\A i \in DOMAIN pc \cap DOMAIN pc' :
          /\ (pc[i] = "queued" /\ pc'[i] # "queued" /\ content[file_paths[i]] = NoFile)
                 => (/\ pc'[i] = "done"
                     /\ state' = state
                     /\ disk' = disk
                     /\ completed' = completed)
          /\ (pc'[i] = "done" /\ content'[file_paths'[i]] = NoFile)
                 => (/\ result'[i] = FALSE
                     /\ how'[i] = "skipped"
                     /\ proc'[i] = "none"
                     /\ np_call'[i].trace = <<>>
                     /\ file_paths'[i] \notin DOMAIN state')]_vars

\* C13 witness: a batch has returned with a missing file skipped and another
\* file processed.
C13_Witness ==
    /\ mpc = "returned"
    /\ \E i, j \in Tasks :
          /\ content[file_paths[i]] = NoFile
          /\ ~returned[i]
          /\ how[i] = "skipped"
          /\ returned[j]
          /\ file_paths[j] \in DOMAIN disk.data

\* C14: at every point of a batch, the state file is a JSON object that holds,
\* for every task that has returned True, an entry of its file with the flag
\* of the phase set.
C14_SuccessIsOnDisk ==
    \A i \in DOMAIN pc :
        (pc[i] = "done" /\ result[i])
            => /\ disk.kind = "json"
               /\ file_paths[i] \in DOMAIN disk.data
               /\ PhaseFlag(disk.data[file_paths[i]], phase)

\* C15: the state file is never text that does not parse, and what it holds
\* are entries of the store.
C15_StateFileAlwaysParseable ==
    /\ disk.kind # "partial"
    /\ DOMAIN disk.data \subseteq DOMAIN state

\* C16: at most one task at a time is between its assignment to
\* self.state[file_key] and the end of its _save_state call.
C16_OneWriterInStore ==
    Cardinality({i \in DOMAIN pc :
                    pc[i] \in {"save_begin", "save_iter", "save_open", "save_write"}}) <= 1

\* C17: with the state file missing or not parseable, __init__ raises nothing
\* and the manager starts with the empty state.
C17_LoadNeverRaises ==
    (mpc # "new" /\ disk.kind \in {"missing", "partial"})
        => (mpc = "idle" /\ init_raised = "" /\ state = EmptyDict)

\* C18: with a state file that parses and has an entry lacking a required
\* field, __init__ raises nothing and the manager starts with the empty state.
C18_IncompleteEntryResetsStore ==
    (/\ mpc # "new"
     /\ disk.kind = "json"
     /\ \E path \in DOMAIN disk.data : ~(required_fields \subseteq DOMAIN disk.data[path]))
        => (mpc = "idle" /\ init_raised = "" /\ state = EmptyDict)

\* C19: when a batch returns, processed_files is the number of True outcomes
\* of that batch, each of them a processed file (no skipped or failed one),
\* and total_files is the length of the input list.
C19_ProgressCountsSuccesses ==
    mpc = "returned" =>
        /\ progress.processed_files = Cardinality({i \in Tasks : returned[i]})
        /\ progress.total_files = Len(file_paths)
        /\ \A i \in Tasks : returned[i] <=> (how[i] = "processed")

\* C19 witness: a second batch, after one that counted a success, has
\* returned [True, False] for two files, the Processor having raised for the
\* second, with a processed count of 1 out of 2.
C19_Witness ==
    /\ mpc = "returned"
    /\ batch_no = 2
    /\ \E x \in DOMAIN lastOK : lastOK[x] = 1
    /\ returned = <<TRUE, FALSE>>
    /\ proc[2] = "raised"
    /\ progress.processed_files = 1
    /\ progress.total_files = 2

\* C20: whenever a step changes self.progress, _progress_lock is held.
C20_ProgressMutatedUnderLock ==
    [][progress' # progress => progress_lock # Unlocked]_vars

\* C21: at every moment, the number of submitted tasks whose process_file call
\* has begun and not ended is at most max_workers.
C21_AtMostMaxWorkersInProgress ==
    Cardinality({i \in DOMAIN pc : pc[i] \notin {"queued", "done"}}) <= max_workers

\* C21 witness: with max_workers = 1 and two files that both need processing,
\* the first task is past its Processor call while the second is still queued.
C21_Witness ==
    /\ max_workers = 1
    /\ Len(file_paths) = 2
    /\ pc[1] = "save_write"
    /\ pc[2] = "queued"
    /\ needs_processing(file_paths[2], phase).result
    /\ content[file_paths[2]] # NoFile

\* The place of a phase in run's order.
PhaseRank(p) ==
    CASE p = "download" -> 1
      [] p = "validate" -> 2
      [] p = "features" -> 3
      [] p = "metadata" -> 4

\* C22: the phases of a run start in the order download, validate, features,
\* metadata; outside the validation phase no validation worker is queued or
\* running; while the feature loop runs no process_batch has begun, and
\* while process_batch runs the feature loop is over; process_batch is past
\* its polling loop only when every task is done, and after the metadata
\* phase no task is left unfinished.
C22_PhasesInOrderBehindBarriers ==
    /\ \A j, k \in 1..Len(phase_log) :
          j < k => PhaseRank(phase_log[j]) < PhaseRank(phase_log[k])
    /\ opc # "validate" => ValidationDone
    /\ opc = "features" => (mpc = "idle" /\ batch_no = 0)
    /\ mpc \in {"monitor", "final_save", "final_write", "returned"} =>
          /\ opc = "metadata"
          /\ "features" \notin skip_phases => fpos > Len(downloaded_files)
    /\ mpc \in {"final_save", "final_write", "returned"} => AllDone
    /\ opc \in {"finish", "returned", "except", "raised"} =>
          \A i \in DOMAIN pc : pc[i] = "done"

\* C22 witness: a run over two files has returned after all its phases.
C22_Witness ==
    /\ opc = "returned"
    /\ phase_log = <<"download", "validate", "features", "metadata">>
    /\ Len(downloaded_files) = 2
    /\ stats.phases = {"download", "feature_extraction", "metadata"}
    /\ DOMAIN state = Range(downloaded_files)

\* C23: when run has let an exception through, the statistics file holds the
\* statistics as collected, their last error is the message of that
\* exception, and the exception is the one that was raised inside run.
C23_StatsWrittenBeforeReraise ==
    opc = "raised" =>
        /\ stats_file.kind = "json"
        /\ stats_file.data = stats
        /\ stats.errors # <<>>
        /\ stats.errors[Len(stats.errors)] = "Pipeline error: " \o run_raised
        /\ run_raised = exc
        /\ exc # ""

\* C23 witness: the feature phase raised after the download phase had been
\* recorded.
C23_Witness ==
    /\ opc = "raised"
    /\ run_raised = "OSError"
    /\ "download" \in stats_file.data.phases
    /\ Len(stats_file.data.errors) = 2

\* C24: whenever run has returned normally, the statistics file has been
\* written.
C24_StatsWrittenOnNormalReturn ==
    opc = "returned" => stats_file.kind = "json"

\* C25: with no config file the constructor raises FileNotFoundError and
\* nothing else has happened or happens: no directory, no PipelineManager,
\* no state loaded or committed, no batch, no phase, no statistics file.
C25_MissingConfigNothingAttempted ==
    config.kind = "missing" =>
        /\ opc \in {"absent", "init_raised"}
        /\ opc = "init_raised" => exc = "FileNotFoundError"
        /\ ~dirs
        /\ mpc = "absent"
        /\ state = EmptyDict
        /\ batch_no = 0
        /\ phase_log = <<>>
        /\ stats_file = NoStatsFile

\* C25 witness: the constructor has raised for a missing config file.
C25_Witness ==
    /\ config.kind = "missing"
    /\ opc = "init_raised"

\* C26: in a run whose config file parses but lacks a required key, no file
\* is validated, no features are extracted and no file state is committed.
C26_MissingKeyNoWork ==
    (config.kind = "json" /\ config.keys # ConfigKeys) =>
        /\ \A f \in Files : vpc[f] \notin {"running", "done"}
        /\ ext_features = {}
        /\ completed = EmptyDict
        /\ state = EmptyDict

\* C27: a get for a path returns absent when nothing was put for that path
\* since the last cleanup, and else the artifact last put for that path; no
\* cache call changes the file states in memory or on disk.
C27_GetReturnsLastPut ==
    /\ last_call.op = "get" =>
          IF last_call.path \in DOMAIN last_put
          THEN last_call.found /\ last_call.value = last_put[last_call.path]
          ELSE ~last_call.found
    /\ state = EmptyDict
    /\ disk = NoStateFile

\* C28: a put for one path never changes what a get for another path
\* returns.
C28_PutLeavesOtherPathsAlone ==
    [][\A f \in CachePaths, a \in Features :
          cache_features(f, a) =>
              \A g \in CachePaths \ {f} : cached(g)' = cached(g)]_vars

\* C29: a chunk whose loading or measuring raised is the last chunk the
\* analysis touched: the call has returned a result with passed false whose
\* last issue describes the error, and only the chunks before it were
\* measured.
C29_ChunkExceptionFailsTheFile ==
    \A k \in 1..Len(windows) :
        windows[k].outcome # "ok" =>
            /\ k = Len(windows)
            /\ qpc = "done"
            /\ ~qresult.passed
            /\ qresult.issues # <<>>
            /\ qresult.issues[Len(qresult.issues)] = "Error analyzing file"
            /\ Len(accumulated_metrics) = k - 1

\* C29 witness: the second chunk raised while being measured, with audio
\* left after it.
C29_Witness ==
    /\ qpc = "done"
    /\ Len(windows) = 2
    /\ windows[2].outcome = "process"
    /\ windows[2].start + windows[2].length < duration
    /\ ~qresult.passed

\* The keys that occur in some dict of a list.
KeysOf(metrics_list) ==
    UNION {DOMAIN metrics_list[k] : k \in 1..Len(metrics_list)}

\* C30: when the analysis has gone through all chunks, every key of any
\* chunk's metrics is in the file's metrics with the mean of its values
\* over the chunks that have it.
C30_AggregateIsMeanOverProducers ==
    (qpc = "done" /\ accumulated_metrics # <<>>
        /\ \A k \in 1..Len(windows) : windows[k].outcome = "ok"
        /\ Len(accumulated_metrics) = Len(windows) /\ chunk_start >= duration) =>
        \A key \in KeysOf(accumulated_metrics) :
            /\ key \in DOMAIN qresult.metrics
            /\ qresult.metrics[key] = Mean(ValuesOf(accumulated_metrics, key))

\* C33: no step of a batch run or of a save removes a file from self.state:
\* the set of its keys only grows.
C33_StoreOnlyGrows ==
    [][DOMAIN state \subseteq DOMAIN state']_vars

\* C33 witness: two batches have returned, each of which committed another
\* file, and both entries are there.
C33_Witness ==
    /\ mpc = "returned"
    /\ batch_no = 2
    /\ DOMAIN state = Files
    /\ \E f, g \in Files, P, Q \in PhaseNames :
          /\ f # g
          /\ Count(lastOK, <<f, P>>) = 1
          /\ Count(lastOK, <<g, Q>>) = 2

\* C34: the commit of a task stores the file's current hash and sets the
\* flag of the batch's phase; if the entry it replaces has that same hash,
\* every flag true in it stays true; if there was no entry, no other flag
\* is true.
C34_CommitKeepsFlagsOnSameHash ==
    [][\A i \in DOMAIN pc \cap DOMAIN pc' :
          (pc[i] = "update" /\ pc'[i] = "save_begin") =>
              LET f == file_paths[i]
                  new == state'[f]
              IN  /\ new.hash = get_file_hash(f)
                  /\ PhaseFlag(new, phase)
                  /\ IF f \in DOMAIN state
                     THEN state[f].hash = get_file_hash(f) =>
                              \A Q \in PhaseNames : PhaseFlag(state[f], Q) => PhaseFlag(new, Q)
                     ELSE \A Q \in PhaseNames \ {phase} : ~PhaseFlag(new, Q)]_vars

\* C34 witness: a.mp3, unchanged in between, went through "features" in one
\* batch and "metadata" in another, and its entry has both flags.
C34_Witness ==
    /\ mpc = "returned"
    /\ "a.mp3" \in DOMAIN state
    /\ state["a.mp3"].hash = content["a.mp3"]
    /\ state["a.mp3"].features_extracted
    /\ state["a.mp3"].metadata_extracted
    /\ Count(lastOK, <<"a.mp3", "features">>) + Count(lastOK, <<"a.mp3", "metadata">>) = 3

\* C38: a finished task's outcome is True exactly when the task replaced its
\* file's entry in self.state, that is when its Processor call returned.
C38_OutcomeIffEntryReplaced ==
    \A i \in DOMAIN pc :
        pc[i] = "done" => (result[i] <=> proc[i] = "ok")

\* C39: when process_batch has returned, the state file is a complete JSON
\* object with self.state's keys and, for each, its hash and its four flags.
C39_DiskEqualsStateAtReturn ==
    mpc = "returned" =>
        /\ disk.kind = "json"
        /\ DOMAIN disk.data = DOMAIN state
        /\ \A f \in DOMAIN state :
              /\ disk.data[f].hash = state[f].hash
              /\ disk.data[f].features_extracted = state[f].features_extracted
              /\ disk.data[f].standardized = state[f].standardized
              /\ disk.data[f].validated = state[f].validated
              /\ disk.data[f].metadata_extracted = state[f].metadata_extracted

\* C39 witness: two files were committed, the second task's save finished
\* before the first one's.
C39_Witness ==
    /\ mpc = "returned"
    /\ returned = <<TRUE, TRUE>>
    /\ done_order = <<2, 1>>
    /\ Cardinality(DOMAIN state) = 2

\* C40: under the fair scheduling of the pool threads and of the caller, a
\* process_batch call that has begun returns.
C40_BatchReturns ==
    (mpc = "monitor") ~> (mpc = "returned")

\* C40 witness: a batch of three files has returned, all three having gone
\* through the progress lock.
C40_Witness ==
    /\ mpc = "returned"
    /\ Len(returned) = 3
    /\ progress.processed_files = 3

\* The lengths of the windows loaded so far.
WindowLengths == [k \in 1..Len(windows) |-> windows[k].length]

\* C37: the windows handed to librosa.load start at 0, chunk, 2*chunk, ...;
\* each has the positive length min(chunk, D - start), each begins where the
\* one before ends, and when the loop has gone through the file their
\* lengths sum to D.  No window is loaded of a file shorter than the minimum
\* duration, whose result is a failure with one issue.
C37_WindowsTileTheFile ==
    /\ \A k \in 1..Len(windows) :
          /\ windows[k].start = (k - 1) * chunk_duration
          /\ windows[k].length > 0
          /\ windows[k].length =
                IF chunk_duration < duration - windows[k].start
                THEN chunk_duration ELSE duration - windows[k].start
          /\ windows[k].start + windows[k].length <= duration
          /\ k < Len(windows) =>
                windows[k].start + windows[k].length = windows[k + 1].start
    /\ (qpc = "done" /\ windows # <<>> /\ windows[Len(windows)].outcome = "ok") =>
          Sum(WindowLengths) = duration
    /\ windows # <<>> => duration >= MinDuration
    /\ (qpc = "done" /\ duration < MinDuration) =>
          /\ windows = <<>>
          /\ ~qresult.passed
          /\ Len(qresult.issues) = 1

\* C37 witness: a file of three seconds analysed in chunks of two: the last
\* window is the shorter one, and the file passed.
C37_Witness ==
    /\ qpc = "done"
    /\ qresult.passed
    /\ Len(windows) = 2
    /\ windows[2].length < chunk_duration

\* C35: a task of the metadata phase whose MetadataProcessor failed
\* internally does not end with the outcome True, and its file's entry does
\* not get the metadata flag.
C35_MetadataFlagOnlyOnSuccess ==
    \A i \in DOMAIN pc :
        proc[i] = "error" =>
            /\ pc[i] = "done" => ~result[i]
            /\ ~(file_paths[i] \in DOMAIN state /\ state[file_paths[i]].metadata_extracted)

Validated == IF vpos < Len(audio_files) THEN vpos ELSE Len(audio_files)
BatchesDone == (Len(results) + batch_size - 1) \div batch_size
ResultsOfBatch(j) ==
    SubSeq(results, (j - 1) * batch_size + 1,
           IF j * batch_size < Len(results) THEN j * batch_size ELSE Len(results))

\* C31: every file validated so far has exactly one result, in the order of
\* the input; a file whose analysis raised in the worker has a failed result
\* and the files after it are validated all the same; the summary of the
\* last batch counts the files of that batch, the merged summary counts all
\* the files validated so far, and in both passed_files + failed_files =
\* total_files; when the loop is over total_files is the number of input
\* files.
C31_EveryFileCountedOnce ==
    /\ Len(results) = Validated
    /\ \A k \in 1..Len(results) :
          /\ results[k].filename = audio_files[k]
          /\ results[k].issue = "Processing error" => ~results[k].passed
    /\ batch_results.summary.total_files =
          (IF BatchesDone = 0 THEN 0 ELSE Len(ResultsOfBatch(BatchesDone)))
    /\ batch_results.summary.passed_files + batch_results.summary.failed_files =
          batch_results.summary.total_files
    /\ total_results.summary.total_files = Validated
    /\ total_results.summary.passed_files = CountPassed(results)
    /\ total_results.summary.passed_files + total_results.summary.failed_files =
          total_results.summary.total_files
    /\ vpos >= Len(audio_files) =>
          total_results.summary.total_files = Len(audio_files)

\* C31 witness: three files validated in two batches, the first file raised
\* in its worker, a later one passed, and the merged summary counts three
\* files, one of them passed.
C31_Witness ==
    /\ Len(audio_files) = 3
    /\ batch_size = 2
    /\ vpos >= Len(audio_files)
    /\ results[1].issue = "Processing error"
    /\ results[3].passed
    /\ total_results.summary.total_files = 3
    /\ total_results.summary.passed_files = 1
    /\ total_results.summary.failed_files = 2

\* C32: after any number of batches, every metric that the averages of some
\* batch report is among the merged averages, and its merged average is the
\* mean of that metric over all the files validated so far that have it.
C32_MergedAverageIsTrueMean ==
    \A j \in 1..BatchesDone :
        \A metric \in DOMAIN validate_dataset(ResultsOfBatch(j)).summary.average_metrics :
            /\ metric \in DOMAIN total_results.summary.average_metrics
            /\ SameNumber(total_results.summary.average_metrics[metric],
                          Mean(ValuesOf(MetricsOf(results), metric)))

====
